---- MODULE Spec2Model ----
(***************************************************************************)
(* CodeGraph ingestion: arango_ingest.py (typed property graph) and        *)
(* typesense_ingest.py (flat search documents).                            *)
(*                                                                         *)
(* Strings.  A qname "m.C.__init__" is the sequence of its dot-separated   *)
(* segments <<"m", "C", "__init__">>; the empty sequence stands for a      *)
(* missing (None) or empty qname, both falsy in Python.  A missing kind,   *)
(* rel_type or collection is the empty string "".  A composite string      *)
(* "src:tgt:REL" is a sequence of tokens with ":" tokens in between.  A    *)
(* short name (make_name_variants) is a sequence of characters.            *)
(***************************************************************************)
EXTENDS Integers, Sequences, FiniteSets, TLC

VARIABLES
    prog,           \* which script runs: "arango", "typesense", "variants", "classify"
    data,           \* the loaded input: qname -> entity record (immutable)
    order,          \* iteration order of data.items(): the file's key order
    batch_size,     \* the flush threshold (the local batch_size)
    faults,         \* bulk writes the destination may still reject
    reruns,         \* further invocations of main the operator may make
    pc,             \* position in main
    idx,            \* position in the loop being run
    qname_to_coll,  \* ingest_nodes' routing table, handed to ingest_edges
    batches,        \* per-collection buffers of the running writer
    pending,        \* collections the "flush remaining" loop has not visited
    db,             \* destination: collection -> stored documents (by _key)
    flushes,        \* history: every bulk write issued in this run
    emitted,        \* history: every document a writer buffered in this run
    visited,        \* history: entities ingest_nodes has handled in this run
    run,            \* number of the current invocation of main
    failed,         \* history: some bulk write was rejected
    snapshot,       \* history: db when the previous invocation ended
    total_indexed,  \* ingest_documents' counter
    name,           \* make_name_variants' argument
    node,           \* determine_collection's argument
    result          \* value returned by the function under study

vars == <<prog, data, order, batch_size, faults, reruns, pc, idx, qname_to_coll,
          batches, pending, db, flushes, emitted, visited, run, failed, snapshot,
          total_indexed, name, node, result>>

(***************************************************************************)
(* Bounds of the model.                                                    *)
(***************************************************************************)
MaxEntities == 3
MaxBatchSize == 2
MaxFaults == 1
KeyDigits == 4

(***************************************************************************)
(* Constant tables of arango_ingest.py.                                    *)
(***************************************************************************)
\* the table with kind "module" mapped to None, like the synthetic kinds
KindTableWithoutModule ==
    [kind \in {"class", "function", "async_function", "module", "params_of",
               "returns", "import", "assignment", "augmented_assignment"} |->
        CASE kind = "class" -> "types"
          [] kind \in {"function", "async_function"} -> "functions"
          [] kind \in {"assignment", "augmented_assignment"} -> "members"
          [] OTHER -> ""]

KIND_TO_COLLECTION ==
    [kind \in {"class", "function", "async_function", "module", "params_of",
               "returns", "import", "assignment", "augmented_assignment"} |->
        CASE kind = "class" -> "types"
          [] kind \in {"function", "async_function"} -> "functions"
          [] kind = "module" -> "modules"
          [] kind \in {"assignment", "augmented_assignment"} -> "members"
          [] OTHER -> ""]

\* the table with the inverse relation given an edge class instead of None
RelTableWithInverse ==
    [rel_type \in {"CALLS", "CALLED_BY", "INHERITS_FROM", "DECORATED_BY", "PARAM_OF",
                   "RETURNS", "IMPORTS", "CLASS_DEF", "FUNCTION_DEF"} |->
        CASE rel_type \in {"CALLS", "CALLED_BY"} -> "calls"
          [] rel_type = "INHERITS_FROM" -> "inherits"
          [] rel_type = "DECORATED_BY" -> "decorated_by"
          [] rel_type = "PARAM_OF" -> "param_of"
          [] rel_type = "RETURNS" -> "returns"
          [] rel_type = "IMPORTS" -> "imports"
          [] OTHER -> "parent"]

REL_TO_EDGE_COLLECTION ==
    [rel_type \in {"CALLS", "CALLED_BY", "INHERITS_FROM", "DECORATED_BY", "PARAM_OF",
                   "RETURNS", "IMPORTS", "CLASS_DEF", "FUNCTION_DEF"} |->
        CASE rel_type = "CALLS" -> "calls"
          [] rel_type = "CALLED_BY" -> ""
          [] rel_type = "INHERITS_FROM" -> "inherits"
          [] rel_type = "DECORATED_BY" -> "decorated_by"
          [] rel_type = "PARAM_OF" -> "param_of"
          [] rel_type = "RETURNS" -> "returns"
          [] rel_type = "IMPORTS" -> "imports"
          [] OTHER -> "parent"]

NODE_COLLECTIONS == <<"functions", "types", "members", "files", "modules">>

EDGE_DEFINITIONS ==
    [edge_collection \in {"calls", "implements", "inherits", "returns", "param_of",
                          "parent", "imports", "decorated_by"} |->
        CASE edge_collection = "calls" ->
                [from_vertex_collections |-> {"functions"},
                 to_vertex_collections |-> {"functions"}]
          [] edge_collection = "implements" ->
                [from_vertex_collections |-> {"types"},
                 to_vertex_collections |-> {"types"}]
          [] edge_collection = "inherits" ->
                [from_vertex_collections |-> {"types"},
                 to_vertex_collections |-> {"types"}]
          [] edge_collection = "returns" ->
                [from_vertex_collections |-> {"functions"},
                 to_vertex_collections |-> {"types"}]
          [] edge_collection = "param_of" ->
                [from_vertex_collections |-> {"types"},
                 to_vertex_collections |-> {"functions"}]
          [] edge_collection = "parent" ->
                [from_vertex_collections |-> {"functions", "members"},
                 to_vertex_collections |-> {"types", "files", "modules"}]
          [] edge_collection = "imports" ->
                [from_vertex_collections |-> {"files", "modules"},
                 to_vertex_collections |-> {"modules"}]
          [] OTHER ->
                [from_vertex_collections |-> {"functions", "types"},
                 to_vertex_collections |-> {"functions"}]]

NodeCollectionSet == {NODE_COLLECTIONS[n] : n \in 1..Len(NODE_COLLECTIONS)}

edge_collections == DOMAIN EDGE_DEFINITIONS

(***************************************************************************)
(* Python helpers.                                                         *)
(***************************************************************************)
Range(s) == {s[n] : n \in DOMAIN s}

\* dict.get(key) with None modelled as the falsy ""
Get(map, key) == IF key \in DOMAIN map THEN map[key] ELSE ""

\* ".seg." in qname: qname has the segment strictly inside (segments hold no dot)
ContainsInner(qname, seg) == \E p \in 2..(Len(qname) - 1) : qname[p] = seg

\* the tokens strings are made of, in a fixed order that gives each a code
TokenList == <<"m", "C", "__init__", "f", "g", "p", "assignment", "h", "v", ":",
               "CALLS", "CALLED_BY", "INHERITS_FROM", "DECORATED_BY", "PARAM_OF",
               "RETURNS", "IMPORTS", "CLASS_DEF", "FUNCTION_DEF", "USES">>

TokenCode(tok) == CHOOSE n \in 1..Len(TokenList) : TokenList[n] = tok

KeySpace == 16 ^ KeyDigits

RECURSIVE Digest(_, _)
Digest(s, h) ==
    IF s = <<>> THEN h
    ELSE Digest(Tail(s), (h * 31 + TokenCode(Head(s))) % KeySpace)

\* hashlib.md5(s).hexdigest()[:16]: a fixed-width digest of the whole string
make_key(s) == Digest(s, 7)

\* determine_collection without the scope test on assignments
determine_collection_unscoped(n) ==
    IF n.kind \in DOMAIN KIND_TO_COLLECTION THEN KIND_TO_COLLECTION[n.kind] ELSE ""

determine_collection(n) ==
    LET kind == n.kind
        parent_qname == n.parent_qualified_name
    IN  IF kind \in DOMAIN KIND_TO_COLLECTION
        THEN LET coll == KIND_TO_COLLECTION[kind]
             IN  IF coll # ""
                 THEN IF kind \in {"assignment", "augmented_assignment"}
                      THEN IF parent_qname # <<>>
                                /\ ~ContainsInner(parent_qname, "assignment")
                           THEN "members"
                           ELSE ""
                      ELSE coll
                 ELSE ""
        ELSE ""

\* the lean node document of ingest_nodes (name, doc, filepath, pos not modelled)
NodeDoc(qname, n, d) ==
    [_key |-> make_key(qname),
     qname |-> qname,
     kind |-> IF n.kind = "async_function" THEN "function" ELSE n.kind,
     namespace |-> n.parent_qualified_name,
     is_async |-> n.kind = "async_function",
     is_method |-> /\ determine_collection(n) = "functions"
                   /\ n.parent_qualified_name # <<>>
                   /\ n.parent_qualified_name \in DOMAIN d
                   /\ d[n.parent_qualified_name].kind = "class"]

\* the body of ingest_edges' loop up to the edge document: which edge, if any,
\* one relation yields under routing table q2c
ResolveRelation(rel, q2c, d) ==
    LET rel_type == rel.rel_type
        source == rel.source
        target == rel.target
        none == [emit |-> FALSE, edge_coll |-> "", source |-> source, target |-> target,
                 source_coll |-> "", target_coll |-> ""]
    IN  IF rel_type = "" \/ source = <<>> \/ target = <<>> THEN none
        ELSE
        LET edge_coll == Get(REL_TO_EDGE_COLLECTION, rel_type)
        IN  IF edge_coll = "" THEN none
            ELSE
            LET source_coll == Get(q2c, source)
                target_coll0 == Get(q2c, target)
                init_qname == Append(target, "__init__")
                ctor == edge_coll = "calls" /\ target_coll0 = "types"
            IN  IF ctor /\ init_qname \notin DOMAIN q2c THEN none
                ELSE
                LET target1 == IF ctor THEN init_qname ELSE target
                    target_coll1 == IF ctor THEN Get(q2c, init_qname) ELSE target_coll0
                    target_coll2 ==
                        IF edge_coll = "parent" /\ target_coll1 = ""
                           /\ target1 \in DOMAIN d /\ d[target1].kind = "module"
                        THEN "modules"
                        ELSE target_coll1
                IN  IF source_coll = "" \/ target_coll2 = "" THEN none
                    ELSE [emit |-> TRUE, edge_coll |-> edge_coll, source |-> source,
                          target |-> target1, source_coll |-> source_coll,
                          target_coll |-> target_coll2]

EdgeDoc(rel, res) ==
    [_key |-> make_key(res.source \o <<":">> \o res.target \o <<":", rel.rel_type>>),
     _from |-> <<res.source_coll, make_key(res.source)>>,
     _to |-> <<res.target_coll, make_key(res.target)>>,
     call_site_pos |-> IF res.edge_coll = "calls" THEN rel.pos ELSE 0]

\* import_bulk that adds the documents without replacing those of the same _key
import_bulk_insert(stored, docs) == stored \cup Range(docs)

\* import_bulk(docs, on_duplicate="replace"): upsert by _key, in order
RECURSIVE import_bulk(_, _)
import_bulk(stored, docs) ==
    IF docs = <<>> THEN stored
    ELSE import_bulk({e \in stored : e._key # Head(docs)._key} \cup {Head(docs)},
                     Tail(docs))

\* the relations of the input in the order ingest_edges meets them
RECURSIVE RelSeq(_, _)
RelSeq(d, ord) ==
    IF ord = <<>> THEN <<>> ELSE d[Head(ord)].relations \o RelSeq(d, Tail(ord))

\* outcomes the destination can give a bulk write
Outcomes == IF faults > 0 THEN {TRUE, FALSE} ELSE {TRUE}

FlushRec(writer, coll, docs, ok, final) ==
    [writer |-> writer, coll |-> coll, docs |-> docs, ok |-> ok, final |-> final]

(***************************************************************************)
(* arango_ingest.py: main = ingest_nodes, then ingest_edges.               *)
(***************************************************************************)
EmptyBatches(colls) == [c \in colls |-> <<>>]

\* ingest_nodes leaving its loop after the first entity
NodesPcEarly(ord, i) == IF i > 1 THEN "nodes_flush" ELSE "ingest_nodes"

\* where main stands when ingest_nodes' loop is about to handle entity i
NodesPc(ord, i) == IF i > Len(ord) THEN "nodes_flush" ELSE "ingest_nodes"

EdgesPc(rels, i) == IF i > Len(rels) THEN "edges_flush" ELSE "ingest_edges"

\* one iteration of "for qname, node in data.items()" in ingest_nodes
NodeStep ==
    /\ prog = "arango" /\ pc = "ingest_nodes" /\ idx <= Len(order)
    /\ LET qname == order[idx]
           collection == determine_collection(data[qname])
           doc == NodeDoc(qname, data[qname], data)
       IN  /\ visited' = visited \cup {qname}
           /\ IF collection = ""
              THEN /\ pc' = NodesPc(order, idx + 1)
                   /\ idx' = IF idx + 1 > Len(order) THEN 1 ELSE idx + 1
                   /\ UNCHANGED <<qname_to_coll, batches, db, flushes, emitted,
                                  faults, failed>>
              ELSE LET docs == Append(batches[collection], doc)
                   IN  /\ qname_to_coll' = (qname :> collection) @@ qname_to_coll
                       /\ emitted' = Append(emitted, [writer |-> "nodes",
                                                      coll |-> collection,
                                                      doc |-> doc, origin |-> idx])
                       /\ IF Len(docs) >= batch_size
                          THEN \E ok \in Outcomes :
                                 /\ flushes' = Append(flushes,
                                        FlushRec("nodes", collection, docs, ok, FALSE))
                                 /\ IF ok
                                    THEN /\ db' = [db EXCEPT ![collection] =
                                                      import_bulk(@, docs)]
                                         /\ batches' = [batches EXCEPT
                                                          ![collection] = <<>>]
                                         /\ pc' = NodesPc(order, idx + 1)
                                         /\ idx' = IF idx + 1 > Len(order)
                                                   THEN 1 ELSE idx + 1
                                         /\ UNCHANGED <<faults, failed>>
                                    ELSE \* import_bulk raises: nothing catches it
                                         /\ batches' = [batches EXCEPT
                                                          ![collection] = docs]
                                         /\ pc' = "aborted"
                                         /\ faults' = faults - 1
                                         /\ failed' = TRUE
                                         /\ UNCHANGED <<db, idx>>
                          ELSE /\ batches' = [batches EXCEPT ![collection] = docs]
                               /\ pc' = NodesPc(order, idx + 1)
                               /\ idx' = IF idx + 1 > Len(order) THEN 1 ELSE idx + 1
                               /\ UNCHANGED <<db, flushes, faults, failed>>
    /\ UNCHANGED <<prog, data, order, batch_size, reruns, pending, run, snapshot,
                   total_indexed, name, node, result>>

\* ingest_nodes without its "Flush remaining" loop
NodesLeftNone == {}

\* positions of NODE_COLLECTIONS, from idx on, whose buffer is not empty
NodesLeft == {n \in idx..Len(NODE_COLLECTIONS) : batches[NODE_COLLECTIONS[n]] # <<>>}

\* "Flush remaining" of ingest_nodes: the next collection with a non-empty buffer
NodeFlushRemaining ==
    /\ prog = "arango" /\ pc = "nodes_flush" /\ NodesLeft # {}
    /\ LET n == CHOOSE n \in NodesLeft : \A o \in NodesLeft : n <= o
           collection == NODE_COLLECTIONS[n]
           docs == batches[collection]
       IN  \E ok \in Outcomes :
             /\ flushes' = Append(flushes, FlushRec("nodes", collection, docs, ok, TRUE))
             /\ IF ok
                THEN /\ db' = [db EXCEPT ![collection] = import_bulk(@, docs)]
                     /\ idx' = n + 1
                     /\ UNCHANGED <<pc, faults, failed>>
                ELSE /\ pc' = "aborted"
                     /\ faults' = faults - 1
                     /\ failed' = TRUE
                     /\ UNCHANGED <<db, idx>>
    /\ UNCHANGED <<prog, data, order, batch_size, reruns, qname_to_coll, batches,
                   pending, emitted, visited, run, snapshot, total_indexed, name,
                   node, result>>

\* ingest_nodes returns the routing table; main calls ingest_edges with it
StartEdges ==
    /\ prog = "arango" /\ pc = "nodes_flush" /\ NodesLeft = {}
    /\ batches' = EmptyBatches(edge_collections)
    /\ pending' = edge_collections
    /\ pc' = EdgesPc(RelSeq(data, order), 1)
    /\ idx' = 1
    /\ UNCHANGED <<prog, data, order, batch_size, faults, reruns, qname_to_coll, db,
                   flushes, emitted, visited, run, failed, snapshot, total_indexed,
                   name, node, result>>

\* one iteration of "for rel in relations" in ingest_edges
EdgeStep ==
    /\ prog = "arango" /\ pc = "ingest_edges" /\ idx <= Len(RelSeq(data, order))
    /\ LET rels == RelSeq(data, order)
           rel == rels[idx]
           res == ResolveRelation(rel, qname_to_coll, data)
           edge_coll == res.edge_coll
           edge_doc == EdgeDoc(rel, res)
       IN  /\ pc' = EdgesPc(rels, idx + 1)
           /\ idx' = idx + 1
           /\ IF ~res.emit
              THEN UNCHANGED <<batches, db, flushes, emitted, faults, failed>>
              ELSE LET docs == Append(batches[edge_coll], edge_doc)
                   IN  /\ emitted' = Append(emitted, [writer |-> "edges",
                                                      coll |-> edge_coll,
                                                      doc |-> edge_doc, origin |-> idx])
                       /\ IF Len(docs) >= batch_size
                          THEN \E ok \in Outcomes :
                                 /\ flushes' = Append(flushes,
                                        FlushRec("edges", edge_coll, docs, ok, FALSE))
                                 /\ db' = IF ok
                                          THEN [db EXCEPT ![edge_coll] =
                                                   import_bulk(@, docs)]
                                          ELSE db
                                 /\ faults' = IF ok THEN faults ELSE faults - 1
                                 /\ failed' = (failed \/ ~ok)
                                 /\ batches' = [batches EXCEPT ![edge_coll] = <<>>]
                          ELSE /\ batches' = [batches EXCEPT ![edge_coll] = docs]
                               /\ UNCHANGED <<db, flushes, faults, failed>>
    /\ UNCHANGED <<prog, data, order, batch_size, reruns, qname_to_coll, pending,
                   visited, run, snapshot, total_indexed, name, node, result>>

\* "Flush remaining" of ingest_edges: batches.items() runs in the order of a set of
\* strings, which the build does not fix
EdgeFlushRemaining ==
    /\ prog = "arango" /\ pc = "edges_flush"
    /\ \E edge_coll \in pending :
         /\ batches[edge_coll] # <<>>
         /\ \E ok \in Outcomes :
              /\ flushes' = Append(flushes, FlushRec("edges", edge_coll,
                                                     batches[edge_coll], ok, TRUE))
              /\ db' = IF ok
                       THEN [db EXCEPT ![edge_coll] = import_bulk(@, batches[edge_coll])]
                       ELSE db
              /\ faults' = IF ok THEN faults ELSE faults - 1
              /\ failed' = (failed \/ ~ok)
         /\ pending' = pending \ {edge_coll}
    /\ UNCHANGED <<prog, data, order, batch_size, reruns, pc, idx, qname_to_coll,
                   batches, emitted, visited, run, snapshot, total_indexed, name,
                   node, result>>

\* main returns; the operator may then run the script again on the unchanged input
MainReturn ==
    /\ prog = "arango" /\ pc = "edges_flush"
    /\ \A edge_coll \in pending : batches[edge_coll] = <<>>
    /\ \E again \in (IF reruns > 0 THEN {TRUE, FALSE} ELSE {FALSE}) :
         IF again
         THEN /\ reruns' = reruns - 1
              /\ run' = run + 1
              /\ snapshot' = db
              /\ pc' = NodesPc(order, 1)
              /\ idx' = 1
              /\ qname_to_coll' = <<>>
              /\ batches' = EmptyBatches(NodeCollectionSet)
              /\ pending' = {}
              /\ flushes' = <<>>
              /\ emitted' = <<>>
              /\ visited' = {}
         ELSE /\ pc' = "done"
              /\ UNCHANGED <<reruns, run, snapshot, idx, qname_to_coll, batches,
                             pending, flushes, emitted, visited>>
    /\ UNCHANGED <<prog, data, order, batch_size, faults, db, failed, total_indexed,
                   name, node, result>>

NextArango ==
    \/ NodeStep
    \/ NodeFlushRemaining
    \/ StartEdges
    \/ EdgeStep
    \/ EdgeFlushRemaining
    \/ MainReturn

(***************************************************************************)
(* Inputs.  An entity record carries the fields the two scripts read.      *)
(***************************************************************************)
Entity(kind, qualified_name, parent, relations) ==
    [kind |-> kind, qualified_name |-> qualified_name,
     parent_qualified_name |-> parent, relations |-> relations]

Relation(rel_type, source, target, pos) ==
    [rel_type |-> rel_type, source |-> source, target |-> target, pos |-> pos]

\* qname minus its last segment: the lexical parent
Prefix(qname) == IF qname = <<>> THEN <<>> ELSE SubSeq(qname, 1, Len(qname) - 1)

\* sequences of distinct elements of S, of length at most n
DistinctSeqs(S, n) ==
    UNION {{s \in [1..l -> S] : \A a, b \in 1..l : a # b => s[a] # s[b]} : l \in 0..n}

\* A sample code base as the extractor describes it: module m with class C (and its
\* __init__), function f, coroutine g and module-level variable v.
SampleQNames == {<<"m">>, <<"m", "C">>, <<"m", "C", "__init__">>, <<"m", "f">>,
                 <<"m", "g">>, <<"m", "v">>}

SampleEntity(q) ==
    CASE q = <<"m">> -> Entity("module", q, <<>>, <<>>)
      [] q = <<"m", "C">> ->
            Entity("class", q, Prefix(q),
                   <<Relation("CLASS_DEF", q, <<"m">>, 0)>>)
      [] q = <<"m", "C", "__init__">> ->
            Entity("function", q, Prefix(q),
                   <<Relation("FUNCTION_DEF", q, <<"m", "C">>, 0),
                     Relation("CALLS", q, <<"m", "g">>, 1)>>)
      [] q = <<"m", "f">> ->
            Entity("function", q, Prefix(q),
                   <<Relation("CALLS", q, <<"m", "C">>, 1),
                     Relation("CALLS", q, <<"m", "C">>, 2),
                     Relation("CALLED_BY", q, <<"m", "g">>, 0)>>)
      [] q = <<"m", "g">> ->
            Entity("async_function", q, Prefix(q),
                   <<Relation("CALLS", q, <<"m", "f">>, 1),
                     Relation("FUNCTION_DEF", q, <<"m">>, 0)>>)
      [] OTHER -> Entity("assignment", q, Prefix(q), <<>>)

AllCollections == NodeCollectionSet \cup edge_collections \cup {"code_nodes"}

\* the state main starts from, for input d in file order ord
InitArango(d, ord, bs, nf, nr) ==
    /\ prog = "arango"
    /\ data = d
    /\ order = ord
    /\ batch_size = bs
    /\ faults = nf
    /\ reruns = nr
    /\ pc = NodesPc(ord, 1)
    /\ idx = 1
    /\ qname_to_coll = <<>>
    /\ batches = EmptyBatches(NodeCollectionSet)
    /\ pending = {}
    /\ db = [c \in AllCollections |-> {}]
    /\ flushes = <<>>
    /\ emitted = <<>>
    /\ visited = {}
    /\ run = 1
    /\ failed = FALSE
    /\ snapshot = [c \in AllCollections |-> {}]
    /\ total_indexed = 0
    /\ name = <<>>
    /\ node = Entity("", <<>>, <<>>, <<>>)
    /\ result = <<>>

\* every part of the sample code base, in every file order, under a destination
\* that may reject up to MaxFaults bulk writes, run once or twice
InitSample ==
    \E ord \in DistinctSeqs(SampleQNames, MaxEntities) :
      \E bs \in 1..MaxBatchSize :
        InitArango([q \in Range(ord) |-> SampleEntity(q)], ord, bs, MaxFaults, 1)

\* Resolution in breadth: three qnames of any kind (or absent) and one relation of
\* any type between any two of them (or with a missing end), attached to the first
\* entity of the file.
ResolveQNames == <<<<"m", "C">>, <<"m", "C", "__init__">>, <<"m", "f">>>>

ResolveKinds == {"class", "function", "module", "assignment", "import"}

RelTypes == DOMAIN REL_TO_EDGE_COLLECTION \cup {"USES", ""}

InitResolve ==
    \E kindOf \in [Range(ResolveQNames) -> ResolveKinds \cup {""}] :
      \E rel_type \in RelTypes :
        \E source, target \in Range(ResolveQNames) \cup {<<>>} :
          LET ord == SelectSeq(ResolveQNames, LAMBDA q : kindOf[q] # "")
              rel == Relation(rel_type, source, target, 1)
          IN  /\ ord # <<>>
              /\ InitArango([q \in Range(ord) |->
                                Entity(kindOf[q], q, Prefix(q),
                                       IF q = ord[1] THEN <<rel>> ELSE <<>>)],
                            ord, MaxBatchSize, 0, 0)

(***************************************************************************)
(* typesense_ingest.py: ingest_documents.                                  *)
(***************************************************************************)
INDEXABLE_KINDS == {"class", "function", "async_function", "module", "assignment"}

\* segments that begin with "return": ".return" in qname holds at any of them
ReturnSegments == {"return", "returns", "return_value"}

should_index(n) ==
    IF n.kind \notin INDEXABLE_KINDS THEN FALSE
    ELSE LET qname == n.qualified_name
         IN  IF \/ ContainsInner(qname, "param")
                \/ \E p \in 2..Len(qname) : qname[p] \in ReturnSegments
                \/ ContainsInner(qname, "yields")
             THEN FALSE
             ELSE TRUE

\* qname.replace("/", "_").replace(".", "_"): the segments with "_" in between
RECURSIVE SafeId(_)
SafeId(qname) ==
    IF Len(qname) <= 1 THEN qname
    ELSE <<Head(qname), "_">> \o SafeId(Tail(qname))

\* the search document (name_variants, code, doc, filepath, pos not modelled)
SearchDoc(qname, n) ==
    [id |-> SafeId(qname),
     qname |-> qname,
     name |-> qname[Len(qname)],
     kind |-> n.kind,
     namespace |-> n.parent_qualified_name]

DocsPc(ord, i) == IF i > Len(ord) THEN "docs_flush" ELSE "ingest_documents"

\* one iteration of "for qname, node in data.items()" in ingest_documents
DocStep ==
    /\ prog = "typesense" /\ pc = "ingest_documents" /\ idx <= Len(order)
    /\ LET qname == order[idx]
           doc == SearchDoc(qname, data[qname])
           batch == Append(batches["code_nodes"], doc)
       IN  /\ pc' = DocsPc(order, idx + 1)
           /\ idx' = idx + 1
           /\ visited' = visited \cup {qname}
           /\ IF ~should_index(data[qname])
              THEN UNCHANGED <<batches, db, flushes, emitted, faults, failed,
                               total_indexed>>
              ELSE /\ emitted' = Append(emitted, [writer |-> "documents",
                                                  coll |-> "code_nodes",
                                                  doc |-> doc, origin |-> idx])
                   /\ IF Len(batch) >= batch_size
                      THEN \E ok \in Outcomes :
                             /\ flushes' = Append(flushes,
                                    FlushRec("documents", "code_nodes", batch, ok, FALSE))
                             /\ db' = IF ok
                                      THEN [db EXCEPT !["code_nodes"] =
                                               import_bulk(@, [n \in DOMAIN batch |->
                                                   [_key |-> batch[n].id,
                                                    doc |-> batch[n]]])]
                                      ELSE db
                             /\ total_indexed' = IF ok THEN total_indexed + Len(batch)
                                                 ELSE total_indexed
                             /\ faults' = IF ok THEN faults ELSE faults - 1
                             /\ failed' = (failed \/ ~ok)
                             /\ batches' = [batches EXCEPT !["code_nodes"] = <<>>]
                      ELSE /\ batches' = [batches EXCEPT !["code_nodes"] = batch]
                           /\ UNCHANGED <<db, flushes, faults, failed, total_indexed>>
    /\ UNCHANGED <<prog, data, order, batch_size, reruns, qname_to_coll, pending, run,
                   snapshot, name, node, result>>

\* "Flush remaining" of ingest_documents, and its return of total_indexed
DocFlushRemaining ==
    /\ prog = "typesense" /\ pc = "docs_flush"
    /\ LET batch == batches["code_nodes"]
       IN  IF batch # <<>>
           THEN \E ok \in Outcomes :
                  /\ flushes' = Append(flushes,
                         FlushRec("documents", "code_nodes", batch, ok, TRUE))
                  /\ db' = IF ok
                           THEN [db EXCEPT !["code_nodes"] =
                                    import_bulk(@, [n \in DOMAIN batch |->
                                        [_key |-> batch[n].id, doc |-> batch[n]]])]
                           ELSE db
                  /\ total_indexed' = IF ok THEN total_indexed + Len(batch)
                                      ELSE total_indexed
                  /\ faults' = IF ok THEN faults ELSE faults - 1
                  /\ failed' = (failed \/ ~ok)
                  /\ result' = <<total_indexed'>>
           ELSE /\ result' = <<total_indexed>>
                /\ UNCHANGED <<db, flushes, faults, failed, total_indexed>>
    /\ pc' = "done"
    /\ UNCHANGED <<prog, data, order, batch_size, reruns, idx, qname_to_coll, batches,
                   pending, emitted, visited, run, snapshot, name, node>>

NextTypesense ==
    \/ DocStep
    \/ DocFlushRemaining

\* the sample code base plus a synthetic node of a function's return value
SearchQNames == SampleQNames \cup {<<"m", "f", "return">>}

InitTypesense ==
    \E ord \in DistinctSeqs(SearchQNames, MaxEntities) :
      \E bs \in 1..MaxBatchSize :
        /\ prog = "typesense"
        /\ data = [q \in Range(ord) |-> SampleEntity(q)]
        /\ order = ord
        /\ batch_size = bs
        /\ faults = MaxFaults
        /\ reruns = 0
        /\ pc = DocsPc(ord, 1)
        /\ idx = 1
        /\ qname_to_coll = <<>>
        /\ batches = EmptyBatches({"code_nodes"})
        /\ pending = {}
        /\ db = [c \in AllCollections |-> {}]
        /\ flushes = <<>>
        /\ emitted = <<>>
        /\ visited = {}
        /\ run = 1
        /\ failed = FALSE
        /\ snapshot = [c \in AllCollections |-> {}]
        /\ total_indexed = 0
        /\ name = <<>>
        /\ node = Entity("", <<>>, <<>>, <<>>)
        /\ result = <<>>

(***************************************************************************)
(* determine_collection as a function of one entity.                       *)
(***************************************************************************)
ClassifyKinds == DOMAIN KIND_TO_COLLECTION \cup {"lambda", ""}

ClassifyParents == {<<>>, <<"m">>, <<"m", "f">>, <<"p", "assignment", "h">>,
                    <<"m", "f", "assignment", "v">>, <<"assignment", "h">>,
                    <<"m", "assignment">>}

\* the call determine_collection(node)
Classify ==
    /\ prog = "classify" /\ pc = "call"
    /\ result' = <<determine_collection(node)>>
    /\ pc' = "done"
    /\ UNCHANGED <<prog, data, order, batch_size, faults, reruns, idx, qname_to_coll,
                   batches, pending, db, flushes, emitted, visited, run, failed,
                   snapshot, total_indexed, name, node>>

\* an entity of any kind under any of the parents, the parent itself being an entity
\* of some kind or not in the input at all
InitClassify ==
    \E kind \in ClassifyKinds, parent \in ClassifyParents :
      \E parent_kind \in {"module", "class", "function", "assignment", ""} :
        /\ prog = "classify"
        /\ node = Entity(kind, Append(parent, "v"), parent, <<>>)
        /\ data = IF parent_kind = "" \/ parent = <<>> THEN <<>>
                  ELSE (parent :> Entity(parent_kind, parent, Prefix(parent), <<>>))
        /\ order = <<>>
        /\ batch_size = 1
        /\ faults = 0
        /\ reruns = 0
        /\ pc = "call"
        /\ idx = 1
        /\ qname_to_coll = <<>>
        /\ batches = <<>>
        /\ pending = {}
        /\ db = [c \in AllCollections |-> {}]
        /\ flushes = <<>>
        /\ emitted = <<>>
        /\ visited = {}
        /\ run = 1
        /\ failed = FALSE
        /\ snapshot = [c \in AllCollections |-> {}]
        /\ total_indexed = 0
        /\ name = <<>>
        /\ result = <<>>

(***************************************************************************)
(* make_name_variants.  A name is a sequence of characters; the characters *)
(* are "A" and "b" (ASCII letters), "_", and "Eacute", the non-ASCII       *)
(* capital letter E with acute accent, whose lowercase is "eacute".        *)
(***************************************************************************)
MaxNameLen == 3

Alphabet == {"A", "b", "_", "Eacute"}

\* the character class [A-Z] of the regular expression
AsciiUpper == {"A"}

\* str.lower(), character by character
LowerChar(c) == CASE c = "A" -> "a" [] c = "Eacute" -> "eacute" [] OTHER -> c

lower(str) == [n \in DOMAIN str |-> LowerChar(str[n])]

\* re.sub(r"(?<!^)(?=[A-Z])", "_", str): "_" goes in at every position that is not
\* the start of the string and is followed by a character of [A-Z]
RECURSIVE re_sub_from(_, _)
re_sub_from(str, pos) ==
    IF pos > Len(str) THEN <<>>
    ELSE (IF pos # 1 /\ str[pos] \in AsciiUpper THEN <<"_">> ELSE <<>>)
         \o <<str[pos]>> \o re_sub_from(str, pos + 1)

\* variants.append(v) guarded by "if v not in variants"
AppendNew(variants, v) == IF v \in Range(variants) THEN variants ELSE Append(variants, v)

\* make_name_variants that appends each form without looking for it first
make_name_variants_dup(str) ==
    IF str = <<>> THEN <<>>
    ELSE <<str, lower(str), lower(re_sub_from(str, 1)),
           SelectSeq(str, LAMBDA c : c # "_")>>

make_name_variants(str) ==
    IF str = <<>> THEN <<>>
    ELSE LET variants == <<str>>
             with_lower == AppendNew(variants, lower(str))
             snake == lower(re_sub_from(str, 1))
             with_snake == AppendNew(with_lower, snake)
             no_underscore == SelectSeq(str, LAMBDA c : c # "_")
         IN  AppendNew(with_snake, no_underscore)

\* the call make_name_variants(name)
CallVariants ==
    /\ prog = "variants" /\ pc = "call"
    /\ result' = <<make_name_variants(name)>>
    /\ pc' = "done"
    /\ UNCHANGED <<prog, data, order, batch_size, faults, reruns, idx, qname_to_coll,
                   batches, pending, db, flushes, emitted, visited, run, failed,
                   snapshot, total_indexed, name, node>>

\* every name of at most MaxNameLen characters; the empty one is also None
InitVariants ==
    \E str \in UNION {[1..l -> Alphabet] : l \in 0..MaxNameLen} :
        /\ prog = "variants"
        /\ name = str
        /\ node = Entity("", <<>>, <<>>, <<>>)
        /\ data = <<>>
        /\ order = <<>>
        /\ batch_size = 1
        /\ faults = 0
        /\ reruns = 0
        /\ pc = "call"
        /\ idx = 1
        /\ qname_to_coll = <<>>
        /\ batches = <<>>
        /\ pending = {}
        /\ db = [c \in AllCollections |-> {}]
        /\ flushes = <<>>
        /\ emitted = <<>>
        /\ visited = {}
        /\ run = 1
        /\ failed = FALSE
        /\ snapshot = [c \in AllCollections |-> {}]
        /\ total_indexed = 0
        /\ result = <<>>

(***************************************************************************)
(* Specifications.  Spec: the two scripts, each run on the sample code     *)
(* base.  SpecResolve: arango_ingest.py on every one-relation input.       *)
(* SpecClassify, SpecVariants: one call of the function.                   *)
(***************************************************************************)
Init == InitSample \/ InitTypesense

Next == NextArango \/ NextTypesense

Spec == Init /\ [][Next]_vars

SpecResolve == InitResolve /\ [][NextArango]_vars

SpecClassify == InitClassify /\ [][Classify]_vars

SpecVariants == InitVariants /\ [][CallVariants]_vars

(***************************************************************************)
(* Properties of the relation resolver (ingest_edges).                     *)
(***************************************************************************)
\* positions in the history of the edges ingest_edges has emitted
EmittedEdges == {n \in DOMAIN emitted : emitted[n].writer = "edges"}

\* the relation an emitted edge comes from
RelOf(e) == RelSeq(data, order)[e.origin]

\* how many relations ingest_edges has handled
RelsDone ==
    IF prog # "arango" THEN 0
    ELSE IF pc = "ingest_edges" THEN idx - 1
    ELSE IF pc \in {"edges_flush", "done"} THEN Len(RelSeq(data, order))
    ELSE 0

\* C1 (as claimed): every edge ingest_edges emits into an edge collection has its
\* source node class and its target node class in the sets EDGE_DEFINITIONS declares
\* for that collection.
EdgeConstraintsEnforced ==
    \A n \in EmittedEdges :
        LET e == emitted[n]
        IN  /\ e.doc._from[1] \in EDGE_DEFINITIONS[e.coll].from_vertex_collections
            /\ e.doc._to[1] \in EDGE_DEFINITIONS[e.coll].to_vertex_collections

\* C2 (as claimed): a CALLS relation from a routed source to a target of class
\* "types" yields, when target.__init__ is in the routing table, an edge whose target
\* is the key of target.__init__ under node class "functions", and yields no edge
\* when target.__init__ is not in the routing table.
ConstructorRedirection ==
    \A r \in 1..RelsDone :
        LET rel == RelSeq(data, order)[r]
            init_qname == Append(rel.target, "__init__")
            edges == {n \in EmittedEdges : emitted[n].origin = r}
        IN  (/\ rel.rel_type = "CALLS"
             /\ Get(qname_to_coll, rel.source) # ""
             /\ Get(qname_to_coll, rel.target) = "types")
            => IF init_qname \in DOMAIN qname_to_coll
               THEN /\ edges # {}
                    /\ \A n \in edges :
                         emitted[n].doc._to = <<"functions", make_key(init_qname)>>
               ELSE edges = {}

\* C5: every edge ingest_edges emits comes from a relation with a rel_type, a source
\* and a target, whose rel_type the fixed table maps to the edge's class (so never
\* CALLED_BY, never a type absent from the table), and whose source and (possibly
\* redirected) target each have a resolved node class.
NoUnresolvedEmitted ==
    \A n \in EmittedEdges :
        LET e == emitted[n]
            rel == RelOf(e)
            redirected == e.coll = "calls" /\ Get(qname_to_coll, rel.target) = "types"
            target == IF redirected THEN Append(rel.target, "__init__") ELSE rel.target
        IN  /\ rel.rel_type # "" /\ rel.source # <<>> /\ rel.target # <<>>
            /\ rel.rel_type \notin {"CALLED_BY", "USES"}
            /\ e.coll \in edge_collections
            /\ e.coll = CASE rel.rel_type = "CALLS" -> "calls"
                          [] rel.rel_type = "INHERITS_FROM" -> "inherits"
                          [] rel.rel_type = "DECORATED_BY" -> "decorated_by"
                          [] rel.rel_type = "PARAM_OF" -> "param_of"
                          [] rel.rel_type = "RETURNS" -> "returns"
                          [] rel.rel_type = "IMPORTS" -> "imports"
                          [] rel.rel_type \in {"CLASS_DEF", "FUNCTION_DEF"} -> "parent"
                          [] OTHER -> ""
            /\ rel.source \in DOMAIN qname_to_coll
            /\ e.doc._from = <<qname_to_coll[rel.source], make_key(rel.source)>>
            /\ e.doc._from[1] \in NodeCollectionSet
            /\ e.doc._to[1] \in NodeCollectionSet
            /\ e.doc._to[2] = make_key(target)
            /\ \/ target \in DOMAIN qname_to_coll /\ e.doc._to[1] = qname_to_coll[target]
               \/ /\ e.coll = "parent" /\ e.doc._to[1] = "modules"
                  /\ target \in DOMAIN data /\ data[target].kind = "module"

\* C5 witness: the run is over, one relation was emitted as an edge
EmittedAnEdge == pc = "done" /\ EmittedEdges # {}

(***************************************************************************)
(* Properties of determine_collection.                                     *)
(***************************************************************************)
AssignmentKinds == {"assignment", "augmented_assignment"}

Classified == prog = "classify" /\ pc = "done" /\ node.kind \in AssignmentKinds

\* the entity's parent is in the input and is a module
ParentIsModule ==
    /\ node.parent_qualified_name \in DOMAIN data
    /\ data[node.parent_qualified_name].kind = "module"

\* some entity on the parent qname chain is itself an assignment
ChainHasAssignment ==
    \E l \in 1..Len(node.parent_qualified_name) :
        LET anc == SubSeq(node.parent_qualified_name, 1, l)
        IN  anc \in DOMAIN data /\ data[anc].kind \in AssignmentKinds

HasAssignmentSegment ==
    \E p \in DOMAIN node.parent_qualified_name :
        /\ node.parent_qualified_name[p] = "assignment"
        /\ p # 1 /\ p # Len(node.parent_qualified_name)

UpperLetters == {"A", "Eacute"}

\* the name with "_" put before each non-initial letter of the set, lowercased
RECURSIVE SnakeForm(_, _)
SnakeForm(str, uppers) ==
    IF Len(str) <= 1 THEN [n \in DOMAIN str |-> LowerChar(str[n])]
    ELSE LET last == str[Len(str)]
         IN  SnakeForm(SubSeq(str, 1, Len(str) - 1), uppers)
             \o (IF last \in uppers THEN <<"_">> ELSE <<>>) \o <<LowerChar(last)>>

\* the list holds the original first, then the three forms, nothing twice
VariantsOf(list, uppers) ==
    /\ list # <<>> /\ list[1] = name
    /\ \E n \in DOMAIN list : \A p \in DOMAIN name : /\ Len(list[n]) = Len(name)
                                                     /\ list[n][p] = LowerChar(name[p])
    /\ \E n \in DOMAIN list : list[n] = SnakeForm(name, uppers)
    /\ \E n \in DOMAIN list :
         list[n] = SelectSeq(name, LAMBDA c : c \notin {"_"})
    /\ \A a, b \in DOMAIN list : a # b => list[a] # list[b]

\* C8 (as claimed): for a non-empty name the result starts with the name, holds its
\* lowercase form, its snake-case form (an underscore before each non-initial
\* uppercase letter, then lowercased) and its form without underscores, and holds
\* nothing twice; for a missing or empty name it is the empty list.
NameVariants ==
    (prog = "variants" /\ pc = "done") =>
        IF name = <<>> THEN result = << <<>> >>
        ELSE VariantsOf(result[1], UpperLetters)

\* C8 (amended): the same, the snake-case form having an underscore before each
\* non-initial letter of A-Z only.
NameVariantsAscii ==
    (prog = "variants" /\ pc = "done") =>
        IF name = <<>> THEN result = << <<>> >>
        ELSE VariantsOf(result[1], {"A"})

\* C8 witness: a name with an inner capital and an underscore got four variants
FourVariants ==
    /\ prog = "variants" /\ pc = "done"
    /\ name = <<"b", "_", "A">>
    /\ Len(result[1]) = 4

(***************************************************************************)
(* Properties of the batch writers and of the pipeline.                    *)
(***************************************************************************)
Writers == {"nodes", "edges", "documents"}

RECURSIVE DocsOf(_, _, _, _)
\* the documents of the bulk writes of writer w to collection c, in order; with
\* okOnly, of those the destination accepted
DocsOf(log, w, c, okOnly) ==
    IF log = <<>> THEN <<>>
    ELSE (IF Head(log).writer = w /\ Head(log).coll = c /\ (okOnly => Head(log).ok)
          THEN Head(log).docs ELSE <<>>)
         \o DocsOf(Tail(log), w, c, okOnly)

Delivered(w, c) == DocsOf(flushes, w, c, TRUE)

Attempted(w, c) == DocsOf(flushes, w, c, FALSE)

\* the documents writer w has produced for collection c, in order
Produced(w, c) ==
    LET sel == SelectSeq(emitted, LAMBDA e : e.writer = w /\ e.coll = c)
    IN  [n \in DOMAIN sel |-> sel[n].doc]

\* the routing table of the whole input, whatever the file order
FullRouting(d) ==
    [q \in {x \in DOMAIN d : determine_collection(d[x]) # ""} |->
        determine_collection(d[q])]

\* how many documents of the input are destined to collection c of writer w
Destined(w, c) ==
    CASE w = "nodes" ->
            Cardinality({q \in DOMAIN data : determine_collection(data[q]) = c})
      [] w = "edges" ->
            LET rels == RelSeq(data, order)
            IN  Cardinality({r \in DOMAIN rels :
                    LET res == ResolveRelation(rels[r], FullRouting(data), data)
                    IN  res.emit /\ res.edge_coll = c})
      [] OTHER -> Cardinality({q \in DOMAIN data : should_index(data[q])})

\* writer w has run to its end
Ended(w) ==
    CASE w = "nodes" -> prog = "arango" /\ pc \in {"ingest_edges", "edges_flush", "done"}
      [] w = "edges" ->
            /\ prog = "arango"
            /\ \/ pc = "done"
               \/ pc = "edges_flush" /\ \A c \in pending : batches[c] = <<>>
      [] OTHER -> prog = "typesense" /\ pc = "done"

CollectionsOf(w) ==
    CASE w = "nodes" -> NodeCollectionSet
      [] w = "edges" -> edge_collections
      [] OTHER -> {"code_nodes"}

\* C3 (as claimed): a rejected bulk write never aborts the run: the run reaches its
\* normal end, and by then every document produced, also after the rejected write,
\* was handed to the destination in some bulk write.
PartialFailureIsolation ==
    /\ pc # "aborted"
    /\ \A w \in Writers :
         Ended(w) => \A c \in CollectionsOf(w) : Attempted(w, c) = Produced(w, c)

\* C4: when no bulk write is rejected, a writer that has run to its end has handed
\* each document destined to a collection to the destination exactly once, N in all
\* whatever the threshold, and ingest_documents returns N.
BatchFlushComplete ==
    \A w \in Writers :
        (Ended(w) /\ ~failed) =>
            /\ \A c \in CollectionsOf(w) :
                 /\ Delivered(w, c) = Produced(w, c)
                 /\ Len(Delivered(w, c)) = Destined(w, c)
            /\ w = "documents" => result = <<Destined(w, "code_nodes")>>

\* C4 witness: N = B + 1: three function nodes went out under threshold 2
ThreeNodesByTwo ==
    /\ Ended("nodes") /\ ~failed /\ batch_size = 2
    /\ Len(Delivered("nodes", "functions")) = 3

\* C10 (as claimed): every buffer of the running writer holds fewer than batch_size
\* documents once a document or edge has been handled, also after a rejected bulk
\* write; a threshold flush sends batch_size documents and a final flush between 1
\* and batch_size - 1.
BoundedBuffers ==
    /\ prog \in {"arango", "typesense"} =>
         \A c \in DOMAIN batches : Len(batches[c]) < batch_size
    /\ \A n \in DOMAIN flushes :
         IF flushes[n].final
         THEN Len(flushes[n].docs) >= 1 /\ Len(flushes[n].docs) <= batch_size - 1
         ELSE Len(flushes[n].docs) = batch_size

ArangoCollections == NodeCollectionSet \cup edge_collections

\* the (collection, _key) pairs a destination holds
StoredKeys(store) == UNION {{<<c, e._key>> : e \in store[c]} : c \in ArangoCollections}

\* the (collection, _key) pairs of the input, whatever the file order
ExpectedKeys ==
    LET rels == RelSeq(data, order)
        resolved == {<<rels[r], ResolveRelation(rels[r], FullRouting(data), data)>> :
                        r \in DOMAIN rels}
    IN  {<<FullRouting(data)[q], make_key(q)>> : q \in DOMAIN FullRouting(data)}
        \cup {<<x[2].edge_coll, EdgeDoc(x[1], x[2])._key>> :
                 x \in {y \in resolved : y[2].emit}}

\* C7: with no bulk write rejected, a full run leaves exactly the (collection, _key)
\* pairs the input determines, whatever the file order; a second run on the same
\* input changes neither the stored keys nor any collection's record count; and a
\* collection never holds two records of one _key (two relations that differ only
\* in call-site position are one stored edge).
DeterministicIdempotent ==
    prog = "arango" =>
        /\ \A c \in ArangoCollections :
             Cardinality(db[c]) = Cardinality({e._key : e \in db[c]})
        /\ (pc = "done" /\ ~failed) => StoredKeys(db) = ExpectedKeys
        /\ (run = 2 /\ ~failed) =>
             /\ StoredKeys(snapshot) = ExpectedKeys
             /\ StoredKeys(db) = StoredKeys(snapshot)
             /\ \A c \in ArangoCollections :
                  Cardinality(db[c]) = Cardinality(snapshot[c])

\* C7 witness: the second run is over; f's two calls of C, at two call sites, were
\* both emitted and one "calls" edge is stored
RerunKeptOneEdge ==
    /\ prog = "arango" /\ pc = "done" /\ run = 2 /\ ~failed
    /\ Len(Produced("edges", "calls")) = 2
    /\ Cardinality(db["calls"]) = 1

\* ingest_edges has begun in this run
EdgesBegun ==
    /\ prog = "arango"
    /\ \/ pc \in {"ingest_edges", "edges_flush", "done"}
       \/ EmittedEdges # {}
       \/ \E n \in DOMAIN flushes : flushes[n].writer = "edges"

\* C9: no relation is resolved and no edge batch flushed before ingest_nodes has
\* handled every entity and the routing table is complete; from then to the end of
\* the run the routing table does not change; so every edge is the one the relation
\* resolves to under the routing table of the whole input.
TwoPhaseOrdering ==
    /\ [](EdgesBegun =>
            /\ visited = DOMAIN data
            /\ qname_to_coll = FullRouting(data)
            /\ \A n \in EmittedEdges :
                 LET rel == RelOf(emitted[n])
                 IN  emitted[n].doc =
                        EdgeDoc(rel, ResolveRelation(rel, FullRouting(data), data)))
    /\ [][(EdgesBegun /\ run' = run) => qname_to_coll' = qname_to_coll]_vars

\* C9 witness: an edge was emitted for a relation whose target stands after its
\* source in the file
ForwardReferenceResolved ==
    \E n \in EmittedEdges :
        \E a, b \in DOMAIN order :
            /\ a < b
            /\ order[a] = RelOf(emitted[n]).source
            /\ order[b] = RelOf(emitted[n]).target

(***************************************************************************)
(* The parent-target inference of ingest_edges.                            *)
(***************************************************************************)
\* a resolver with no inference step: the edge collection from the table, both
\* classes from the routing table alone, a call of a class sent to its __init__
ResolveWithoutInference(rel, q2c) ==
    LET edge_coll == Get(REL_TO_EDGE_COLLECTION, rel.rel_type)
        ctor == edge_coll = "calls" /\ Get(q2c, rel.target) = "types"
        target == IF ctor THEN Append(rel.target, "__init__") ELSE rel.target
        emit == /\ rel.rel_type # "" /\ rel.source # <<>> /\ rel.target # <<>>
                /\ edge_coll # ""
                /\ rel.source \in DOMAIN q2c
                /\ target \in DOMAIN q2c
    IN  [emit |-> emit,
         edge_coll |-> IF emit THEN edge_coll ELSE "",
         source |-> rel.source,
         target |-> IF emit THEN target ELSE rel.target,
         source_coll |-> IF emit THEN q2c[rel.source] ELSE "",
         target_coll |-> IF emit THEN q2c[target] ELSE ""]

\* C11: every entity of kind "module" is in the routing table once ingest_nodes has
\* run, so ingest_edges emits for each relation exactly the edge a resolver without
\* the parent-target inference emits (none where that one emits none), and a
\* "parent" relation whose target is not in the routing table yields no edge.
ParentInferenceUnreachable ==
    /\ EdgesBegun =>
         \A q \in DOMAIN data :
             data[q].kind = "module" => Get(qname_to_coll, q) = "modules"
    /\ \A r \in 1..RelsDone :
         LET rel == RelSeq(data, order)[r]
             res == ResolveWithoutInference(rel, qname_to_coll)
             edges == {n \in EmittedEdges : emitted[n].origin = r}
         IN  /\ res.emit <=> edges # {}
             /\ \A n \in edges :
                  /\ emitted[n].coll = res.edge_coll
                  /\ emitted[n].doc = EdgeDoc(rel, res)
             /\ (/\ Get(REL_TO_EDGE_COLLECTION, rel.rel_type) = "parent"
                 /\ rel.target \notin DOMAIN qname_to_coll) => edges = {}

\* C11 witness: the run is over and a "parent" edge was emitted whose target is an
\* entity of kind "module"
ParentEdgeToModule ==
    /\ pc = "done"
    /\ \E n \in EmittedEdges :
         /\ emitted[n].coll = "parent"
         /\ RelOf(emitted[n]).target \in DOMAIN data
         /\ data[RelOf(emitted[n]).target].kind = "module"

====
